---- MODULE Spec2Model ----
(***************************************************************************)
(* ChatBaml: a LangChain chat model on top of BAML.                        *)
(*                                                                         *)
(*  - custom_langchain_model/llms/chat_baml.py: ChatBaml._stream,          *)
(*    _extract_partial_delta, _convert_to_ai_message, bind_tools,          *)
(*    _prepare_tb, _generate                                               *)
(*  - custom_langchain_model/helpers/parse_json_schema.py: SchemaAdder,    *)
(*    parse_json_schema, convert_to_baml_tool                              *)
(*                                                                         *)
(* Text is a sequence of one-character strings, so that str.startswith and *)
(* slicing are computed and not assumed.  Names (discriminants, tool       *)
(* names) are strings; Python's None for a name is the string NoneName.    *)
(***************************************************************************)
EXTENDS Integers, Sequences, FiniteSets, TLC

\* -------------------------------------------------------------------------
\* Bounds of the model
\* -------------------------------------------------------------------------
MaxSnapshots == 5
MaxUuid == 2
MaxBinds == 2

\* -------------------------------------------------------------------------
\* Text
\* -------------------------------------------------------------------------
Empty == <<>>
Hel == <<"H", "e", "l">>
Hell == <<"H", "e", "l", "l">>
Help == <<"H", "e", "l", "p">>
Hello == <<"H", "e", "l", "l", "o">>
HelloWorld == <<"H", "e", "l", "l", "o", " ", "w", "o", "r", "l", "d">>
Texts == {Empty, Hel, Hell, Help, Hello, HelloWorld}

\* str.startswith
StartsWith(s, p) == Len(p) <= Len(s) /\ SubSeq(s, 1, Len(p)) = p

\* s[k:] with k >= 0
SliceFrom(s, k) == SubSeq(s, k + 1, Len(s))

\* -------------------------------------------------------------------------
\* Names
\* -------------------------------------------------------------------------
REPLY_TO_USER == "reply_to_user"
NoneName == "<None>"

\* -------------------------------------------------------------------------
\* BAML field types (FieldType handles returned by the TypeBuilder)
\* -------------------------------------------------------------------------
StringT == [k |-> "string"]
IntT == [k |-> "int"]
FloatT == [k |-> "float"]
BoolT == [k |-> "bool"]
NullT == [k |-> "null"]
LiteralT(v) == [k |-> "literal", v |-> v]
UnionT(ts) == [k |-> "union", of |-> ts]
ListT(t) == [k |-> "list", of |-> t]
MapT(kt, vt) == [k |-> "map", key |-> kt, val |-> vt]
OptionalT(t) == [k |-> "optional", of |-> t]
\* the handle of a registered class or enum: id is the registration that made it
ClassT(name, id) == [k |-> "class", name |-> name, id |-> id]
EnumT(name, id) == [k |-> "enum", name |-> name, id |-> id]
\* the ReplyToUser class the BAML sources declare, present in every TypeBuilder
ReplyToUserT == ClassT("ReplyToUser", 0)

\* TypeBuilder(): no dynamic class, no dynamic enum, DynamicSchema without
\* added properties
NewTypeBuilder == [classes |-> <<>>, enums |-> <<>>, dyn |-> <<>>]

\* -------------------------------------------------------------------------
\* JSON schema nodes: records that carry only the keys the document has
\* -------------------------------------------------------------------------
Has(node, key) == key \in DOMAIN node

\* Python's None as a default value, and a present default
NoDefault == [none |-> TRUE, v |-> 0]
DefaultOf(v) == [none |-> FALSE, v |-> v]

\* field_schema.get("default")
GetDefault(fs) == IF Has(fs, "default") THEN fs.default ELSE NoDefault

\* the names of json_schema.get("required", [])
RequiredOf(node) ==
    IF Has(node, "required") THEN {node.required[i] : i \in 1..Len(node.required)} ELSE {}

\* f"Default: {default_value}" appended to the stripped description
DescriptionOf(fs) ==
    IF Has(fs, "description") /\ fs.description # ""
    THEN IF GetDefault(fs).none THEN fs.description
         ELSE fs.description \o "\nDefault: " \o ToString(GetDefault(fs).v)
    ELSE ""

\* -------------------------------------------------------------------------
\* SchemaAdder: the state of one compiler instance, threaded through parse.
\*   tb           the TypeBuilder (shared by the instances of one session)
\*   schema       the document root
\*   ref_cache    self._ref_cache, ref -> handle
\*   class_cache  self._class_cache, class name -> handle
\*   err          "" or the name of the exception that was raised
\*   ret          the FieldType returned by the last call
\*   ref_parses   the references whose referent was handed to parse, in order
\* -------------------------------------------------------------------------
MaxDepth == 8

NoFn == [x \in {} |-> x]

SchemaAdder(tb, schema) ==
    [tb |-> tb, schema |-> schema, ref_cache |-> NoFn, class_cache |-> NoFn,
     err |-> "", ret |-> NullT, ref_parses |-> <<>>]

Raise(st, e) == [st EXCEPT !.err = e]
Return(st, t) == [st EXCEPT !.ret = t]

\* tb.add_class(name): one more class registration; the builder is the last one
AddClass(st, name) ==
    [st EXCEPT !.tb.classes = Append(@, [name |-> name, props |-> <<>>])]

\* new_cls.add_property(field_name, field_type) and property_.description(d)
AddProperty(st, cls, fname, ftype, desc) ==
    [st EXCEPT !.tb.classes[cls].props =
        Append(@, [name |-> fname, type |-> ftype, desc |-> desc])]

\* tb.add_enum(title) followed by add_value for each value
AddEnum(st, title, values) ==
    [st EXCEPT !.tb.enums = Append(@, [name |-> title, values |-> values])]

\* a field whose schema is {"type": "object"} without properties
IsGenericDict(fs) ==
    /\ ~Has(fs, "properties")
    /\ Has(fs, "type")
    /\ fs.type = "object"

\* a variant that makes literals of the values whether there is a title or not
ParseString_TitleIgnored(node, st) ==
    IF Has(node, "enum") /\ Len(node.enum) > 0
    THEN Return(st, UnionT([i \in 1..Len(node.enum) |-> LiteralT(node.enum[i])]))
    ELSE Return(st, StringT)

\* SchemaAdder._parse_string
ParseString(node, st) ==
    IF Has(node, "enum") /\ Len(node.enum) > 0
    THEN IF ~Has(node, "title")
         THEN Return(st, UnionT([i \in 1..Len(node.enum) |-> LiteralT(node.enum[i])]))
         ELSE LET st1 == AddEnum(st, node.title, node.enum)
              IN Return(st1, EnumT(node.title, Len(st1.tb.enums)))
    ELSE Return(st, StringT)

RECURSIVE Parse(_, _, _)
RECURSIVE ParseAll(_, _, _, _, _)
RECURSIVE ParseObjectProps(_, _, _, _, _, _)
RECURSIVE ParseFunctionProps(_, _, _, _, _, _)
RECURSIVE ParseObject(_, _, _)
RECURSIVE ParseFunction(_, _, _)
RECURSIVE LoadRef(_, _, _)

\* a variant that merges a branch whose handle is already among the variants
ParseAll_Merging(nodes, i, acc, st, fuel) ==
    IF st.err # "" THEN st
    ELSE IF i > Len(nodes) THEN Return(st, acc)
    ELSE LET st1 == Parse(nodes[i], st, fuel)
         IN IF st1.err # "" THEN st1
            ELSE ParseAll(nodes, i + 1,
                          IF \E j \in 1..Len(acc) : acc[j] = st1.ret THEN acc
                          ELSE Append(acc, st1.ret),
                          st1, fuel)

\* [self.parse(sub_schema) for sub_schema in nodes]: st.ret is acc extended
\* by the handles of nodes[i..]
ParseAll(nodes, i, acc, st, fuel) ==
    IF st.err # "" THEN st
    ELSE IF i > Len(nodes) THEN Return(st, acc)
    ELSE LET st1 == Parse(nodes[i], st, fuel)
         IN IF st1.err # "" THEN st1
            ELSE ParseAll(nodes, i + 1, Append(acc, st1.ret), st1, fuel)

\* the loop over properties.items() of SchemaAdder._parse_object
ParseObjectProps(props, i, cls, required, st, fuel) ==
    IF st.err # "" \/ i > Len(props) THEN st
    ELSE LET fs == props[i].schema
             field_name == props[i].name
             st1 == IF IsGenericDict(fs) THEN Return(st, MapT(StringT, StringT))
                    ELSE Parse(fs, st, fuel)
         IN IF st1.err # "" THEN st1
            ELSE LET field_type ==
                         IF field_name \notin required /\ GetDefault(fs).none
                         THEN OptionalT(st1.ret) ELSE st1.ret
                     st2 == AddProperty(st1, cls, field_name, field_type, DescriptionOf(fs))
                 IN ParseObjectProps(props, i + 1, cls, required, st2, fuel)

\* SchemaAdder._parse_object
ParseObject(node, st, fuel) ==
    IF ~Has(node, "title") THEN Raise(st, "ValueError")
    ELSE LET st1 == AddClass(st, node.title)
             cls == Len(st1.tb.classes)
             st2 == IF Has(node, "properties") /\ Len(node.properties) > 0
                    THEN ParseObjectProps(node.properties, 1, cls, RequiredOf(node), st1, fuel)
                    ELSE st1
         IN IF st2.err # "" THEN st2 ELSE Return(st2, ClassT(node.title, cls))

\* a variant that wraps every property that is not required
ParseFunctionProps_IgnoresDefault(props, i, cls, required, st, fuel) ==
    IF st.err # "" \/ i > Len(props) THEN st
    ELSE LET fs == props[i].schema
             field_name == props[i].name
             st1 == IF IsGenericDict(fs) THEN Return(st, MapT(StringT, StringT))
                    ELSE Parse(fs, st, fuel)
         IN IF st1.err # "" THEN st1
            ELSE LET field_type ==
                         IF field_name \notin required
                         THEN OptionalT(st1.ret) ELSE st1.ret
                     st2 == AddProperty(st1, cls, field_name, field_type, DescriptionOf(fs))
                 IN ParseFunctionProps(props, i + 1, cls, required, st2, fuel)

\* the loop over properties.items() of SchemaAdder._parse_function
ParseFunctionProps(props, i, cls, required, st, fuel) ==
    IF st.err # "" \/ i > Len(props) THEN st
    ELSE LET fs == props[i].schema
             field_name == props[i].name
             st1 == IF IsGenericDict(fs) THEN Return(st, MapT(StringT, StringT))
                    ELSE Parse(fs, st, fuel)
         IN IF st1.err # "" THEN st1
            ELSE LET field_type ==
                         IF field_name \notin required /\ GetDefault(fs).none
                         THEN OptionalT(st1.ret) ELSE st1.ret
                     st2 == AddProperty(st1, cls, field_name, field_type, DescriptionOf(fs))
                 IN ParseFunctionProps(props, i + 1, cls, required, st2, fuel)

\* the class name SchemaAdder._parse_function registers for a tool
ToolClassName(tool_name) == "tool_" \o tool_name

\* SchemaAdder._parse_function
ParseFunction(node, st, fuel) ==
    LET function_data == node.function
        class_name == ToolClassName(function_data.name)
    IN IF class_name \in DOMAIN st.class_cache
       THEN Return(st, st.class_cache[class_name])
       ELSE LET st1 == AddClass(st, class_name)
                cls == Len(st1.tb.classes)
                st2 == AddProperty(st1, cls, "action", LiteralT(class_name),
                                   IF Has(function_data, "description")
                                   THEN function_data.description ELSE "")
                parameters == function_data.parameters
                st3 == IF /\ Has(function_data, "parameters")
                          /\ Has(parameters, "type")
                          /\ parameters.type = "object"
                          /\ Has(parameters, "properties")
                          /\ Len(parameters.properties) > 0
                       THEN ParseFunctionProps(parameters.properties, 1, cls,
                                               RequiredOf(parameters), st2, fuel)
                       ELSE st2
            IN IF st3.err # "" THEN st3
               ELSE LET t == ClassT(class_name, cls)
                    IN Return([st3 EXCEPT !.class_cache = (class_name :> t) @@ @], t)

\* SchemaAdder._load_ref; a reference is the sequence of its "/"-separated parts
LoadRef(ref, st, fuel) ==
    IF ~(Len(ref) >= 2 /\ ref[1] = "#") THEN Raise(st, "AssertionError")
    ELSE IF Len(ref) < 3 THEN Raise(st, "ValueError")
    ELSE LET left == ref[2]
             right == SubSeq(ref, 3, Len(ref))
             st1 == IF ref \notin DOMAIN st.ref_cache
                    THEN IF /\ Has(st.schema, "sections")
                            /\ left \in DOMAIN st.schema.sections
                            /\ DOMAIN st.schema.sections[left] # {}
                         THEN LET refs == st.schema.sections[left]
                              IN IF right \notin DOMAIN refs THEN Raise(st, "ValueError")
                                 ELSE LET st2 == Parse(refs[right],
                                                   [st EXCEPT !.ref_parses = Append(@, ref)],
                                                   fuel)
                                      IN IF st2.err # "" THEN st2
                                         ELSE [st2 EXCEPT !.ref_cache = (ref :> st2.ret) @@ @]
                         ELSE st
                    ELSE st
         IN IF st1.err # "" THEN st1
            ELSE IF ref \in DOMAIN st1.ref_cache THEN Return(st1, st1.ref_cache[ref])
            ELSE Raise(st1, "KeyError")

\* SchemaAdder.parse; fuel is the call depth left before RecursionError
Parse(node, st, fuel) ==
    IF st.err # "" THEN st
    ELSE IF fuel = 0 THEN Raise(st, "RecursionError")
    ELSE IF Has(node, "anyOf") /\ Len(node.anyOf) > 0
    THEN LET st1 == ParseAll(node.anyOf, 1, <<>>, st, fuel - 1)
         IN IF st1.err # "" THEN st1 ELSE Return(st1, UnionT(st1.ret))
    ELSE IF /\ Has(node, "additionalProperties")
            /\ Has(node.additionalProperties, "anyOf")
            /\ Len(node.additionalProperties.anyOf) > 0
    THEN LET st1 == ParseAll(node.additionalProperties.anyOf, 1, <<>>, st, fuel - 1)
         IN IF st1.err # "" THEN st1 ELSE Return(st1, MapT(StringT, UnionT(st1.ret)))
    ELSE IF Has(node, "ref") /\ Len(node.ref) > 0
    THEN LoadRef(node.ref, st, fuel - 1)
    ELSE IF ~Has(node, "type") THEN Return(st, StringT)
    ELSE CASE node.type = "string" -> ParseString(node, st)
           [] node.type = "number" -> Return(st, FloatT)
           [] node.type = "integer" -> Return(st, IntT)
           [] node.type = "object" -> ParseObject(node, st, fuel - 1)
           [] node.type = "array" ->
                LET st1 == Parse(node.items, st, fuel - 1)
                IN IF st1.err # "" THEN st1 ELSE Return(st1, ListT(st1.ret))
           [] node.type = "boolean" -> Return(st, BoolT)
           [] node.type = "null" -> Return(st, NullT)
           [] node.type = "function" -> ParseFunction(node, st, fuel - 1)
           [] OTHER -> Raise(st, "ValueError")

\* parse_json_schema: a fresh SchemaAdder on the given TypeBuilder
ParseJsonSchema(json_schema, tb) ==
    Parse(json_schema, SchemaAdder(tb, json_schema), MaxDepth)

\* -------------------------------------------------------------------------
\* convert_to_baml_tool
\* -------------------------------------------------------------------------
\* an optional argument: None, or a value
None == [none |-> TRUE]
Some(v) == [none |-> FALSE, v |-> v]

Whitespace == {" ", "\t", "\n"}

\* str.strip
RECURSIVE Strip(_)
Strip(s) ==
    IF Len(s) = 0 THEN s
    ELSE IF s[1] \in Whitespace THEN Strip(Tail(s))
    ELSE IF s[Len(s)] \in Whitespace THEN Strip(SubSeq(s, 1, Len(s) - 1))
    ELSE s

\* langchain's convert_to_openai_tool: the function-wrapper schema of a tool
ConvertToOpenaiTool(tool) == tool.schema

\* the loop over tools of convert_to_baml_tool: each tool is parsed by a
\* SchemaAdder of its own on the one TypeBuilder
RECURSIVE ConvertTools(_, _, _, _)
ConvertTools(tools, i, baml_types, tb) ==
    IF i > Len(tools) THEN [err |-> "", tb |-> tb, types |-> baml_types]
    ELSE LET st == ParseJsonSchema(ConvertToOpenaiTool(tools[i]), tb)
         IN IF st.err # "" THEN [err |-> st.err, tb |-> st.tb, types |-> baml_types]
            ELSE ConvertTools(tools, i + 1, Append(baml_types, st.ret), st.tb)

\* tb.DynamicSchema.add_property(property_name, final_type)
AddDynamicProperty(tb, property_name, final_type) ==
    [tb EXCEPT !.dyn = Append(@, [name |-> property_name, type |-> final_type])]

\* a variant that accepts an empty tool list when the reply action is included
ConvertToBamlTool_ReplyAlone(tb_arg, tools, property_name, is_multiple_tools, include_reply_to_user) ==
    LET tb == IF tb_arg.none THEN NewTypeBuilder ELSE tb_arg.v
    IN IF tools.none \/ (Len(tools.v) = 0 /\ ~include_reply_to_user)
       THEN [err |-> "ValueError", msg |-> "At least one tool must be provided", tb |-> tb]
       ELSE IF property_name.none \/ Len(Strip(property_name.v)) = 0
       THEN [err |-> "ValueError", msg |-> "property_name must be provided and non-empty",
             tb |-> tb]
       ELSE LET conv == ConvertTools(tools.v, 1, <<>>, tb)
            IN IF conv.err # "" THEN [err |-> conv.err, msg |-> "", tb |-> conv.tb]
               ELSE LET baml_types == IF include_reply_to_user
                                      THEN Append(conv.types, ReplyToUserT)
                                      ELSE conv.types
                        tools_union == UnionT(baml_types)
                        final_type == IF is_multiple_tools THEN ListT(tools_union)
                                      ELSE tools_union
                    IN [err |-> "", msg |-> "",
                        tb |-> AddDynamicProperty(conv.tb, property_name.v, final_type)]

\* a variant that takes a whitespace-only property name for a name
ConvertToBamlTool_NoStrip(tb_arg, tools, property_name, is_multiple_tools, include_reply_to_user) ==
    LET tb == IF tb_arg.none THEN NewTypeBuilder ELSE tb_arg.v
    IN IF tools.none \/ Len(tools.v) = 0
       THEN [err |-> "ValueError", msg |-> "At least one tool must be provided", tb |-> tb]
       ELSE IF property_name.none \/ Len(property_name.v) = 0
       THEN [err |-> "ValueError", msg |-> "property_name must be provided and non-empty",
             tb |-> tb]
       ELSE LET conv == ConvertTools(tools.v, 1, <<>>, tb)
            IN IF conv.err # "" THEN [err |-> conv.err, msg |-> "", tb |-> conv.tb]
               ELSE LET baml_types == IF include_reply_to_user
                                      THEN Append(conv.types, ReplyToUserT)
                                      ELSE conv.types
                        tools_union == UnionT(baml_types)
                        final_type == IF is_multiple_tools THEN ListT(tools_union)
                                      ELSE tools_union
                    IN [err |-> "", msg |-> "",
                        tb |-> AddDynamicProperty(conv.tb, property_name.v, final_type)]

\* a variant that puts the reply action before the tools
ConvertToBamlTool_ReplyFirst(tb_arg, tools, property_name, is_multiple_tools, include_reply_to_user) ==
    LET tb == IF tb_arg.none THEN NewTypeBuilder ELSE tb_arg.v
    IN IF tools.none \/ Len(tools.v) = 0
       THEN [err |-> "ValueError", msg |-> "At least one tool must be provided", tb |-> tb]
       ELSE IF property_name.none \/ Len(Strip(property_name.v)) = 0
       THEN [err |-> "ValueError", msg |-> "property_name must be provided and non-empty",
             tb |-> tb]
       ELSE LET conv == ConvertTools(tools.v, 1, <<>>, tb)
            IN IF conv.err # "" THEN [err |-> conv.err, msg |-> "", tb |-> conv.tb]
               ELSE LET baml_types == IF include_reply_to_user
                                      THEN <<ReplyToUserT>> \o conv.types
                                      ELSE conv.types
                        tools_union == UnionT(baml_types)
                        final_type == IF is_multiple_tools THEN ListT(tools_union)
                                      ELSE tools_union
                    IN [err |-> "", msg |-> "",
                        tb |-> AddDynamicProperty(conv.tb, property_name.v, final_type)]

\* a variant that adds the property before the tools are compiled
ConvertToBamlTool_SlotFirst(tb_arg, tools, property_name, is_multiple_tools, include_reply_to_user) ==
    LET tb == IF tb_arg.none THEN NewTypeBuilder ELSE tb_arg.v
    IN IF tools.none \/ Len(tools.v) = 0
       THEN [err |-> "ValueError", msg |-> "At least one tool must be provided", tb |-> tb]
       ELSE IF property_name.none \/ Len(Strip(property_name.v)) = 0
       THEN [err |-> "ValueError", msg |-> "property_name must be provided and non-empty",
             tb |-> tb]
       ELSE LET conv == ConvertTools(tools.v, 1, <<>>, tb)
            IN IF conv.err # ""
               THEN [err |-> conv.err, msg |-> "",
                     tb |-> AddDynamicProperty(conv.tb, property_name.v, UnionT(conv.types))]
               ELSE LET baml_types == IF include_reply_to_user
                                      THEN Append(conv.types, ReplyToUserT)
                                      ELSE conv.types
                        tools_union == UnionT(baml_types)
                        final_type == IF is_multiple_tools THEN ListT(tools_union)
                                      ELSE tools_union
                    IN [err |-> "", msg |-> "",
                        tb |-> AddDynamicProperty(conv.tb, property_name.v, final_type)]

\* convert_to_baml_tool(tb, tools, property_name, is_multiple_tools,
\* include_reply_to_user): err is "" and tb the returned TypeBuilder, or err
\* names the exception and tb is the TypeBuilder as the call left it
ConvertToBamlTool(tb_arg, tools, property_name, is_multiple_tools, include_reply_to_user) ==
    LET tb == IF tb_arg.none THEN NewTypeBuilder ELSE tb_arg.v
    IN IF tools.none \/ Len(tools.v) = 0
       THEN [err |-> "ValueError", msg |-> "At least one tool must be provided", tb |-> tb]
       ELSE IF property_name.none \/ Len(Strip(property_name.v)) = 0
       THEN [err |-> "ValueError", msg |-> "property_name must be provided and non-empty",
             tb |-> tb]
       ELSE LET conv == ConvertTools(tools.v, 1, <<>>, tb)
            IN IF conv.err # "" THEN [err |-> conv.err, msg |-> "", tb |-> conv.tb]
               ELSE LET baml_types == IF include_reply_to_user
                                      THEN Append(conv.types, ReplyToUserT)
                                      ELSE conv.types
                        tools_union == UnionT(baml_types)
                        final_type == IF is_multiple_tools THEN ListT(tools_union)
                                      ELSE tools_union
                    IN [err |-> "", msg |-> "",
                        tb |-> AddDynamicProperty(conv.tb, property_name.v, final_type)]

\* -------------------------------------------------------------------------
\* Snapshots of the engine's output (DynamicSchema / DynamicSchemaChunk)
\*   isDict       getattr(snapshot, self.property_name, None) is a dict
\*   name         tool_dict.get("name"), NoneName when absent or None
\*   argsKind     "none": arguments absent or None; "empty": {}; "dict"
\*   contentKind  of arguments["content"]: "missing", "null" or "str"
\*   content      the text of arguments["content"] when contentKind = "str"
\*   payload      the other arguments of the dict (the arguments of a tool)
\* -------------------------------------------------------------------------
Snap(isDict, name, argsKind, contentKind, content, payload) ==
    [isDict |-> isDict, name |-> name, argsKind |-> argsKind,
     contentKind |-> contentKind, content |-> content, payload |-> payload]

NoSlot == Snap(FALSE, NoneName, "none", "missing", Empty, "")
NoArgs(name) == Snap(TRUE, name, "none", "missing", Empty, "")
EmptyArgs(name) == Snap(TRUE, name, "empty", "missing", Empty, "")
NullContent(name) == Snap(TRUE, name, "dict", "null", Empty, "")
WithContent(name, text) == Snap(TRUE, name, "dict", "str", text, "")
WithPayload(name, payload) == Snap(TRUE, name, "dict", "missing", Empty, payload)

\* tool_dict.get("arguments") or {}
ArgumentsOf(ds) ==
    IF ds.isDict /\ ds.argsKind = "dict"
    THEN [contentKind |-> ds.contentKind, content |-> ds.content, payload |-> ds.payload]
    ELSE [contentKind |-> "missing", content |-> Empty, payload |-> ""]

\* -------------------------------------------------------------------------
\* ChatBaml._extract_partial_delta
\* -------------------------------------------------------------------------
Delta(tool_name, delta) == [err |-> "", tool_name |-> tool_name, delta |-> delta]
EMPTY_DELTA == Delta("", Empty)

\* a variant that returns the whole content instead of the new suffix
ExtractPartialDelta_WholeContent(partial, prev_content) ==
    IF ~partial.isDict THEN EMPTY_DELTA
    ELSE LET tool_name == IF partial.name = NoneName THEN "" ELSE partial.name
         IN IF tool_name = "" \/ tool_name # REPLY_TO_USER THEN Delta(tool_name, Empty)
            ELSE IF partial.argsKind # "dict" THEN Delta(tool_name, Empty)
            ELSE IF partial.contentKind # "str" THEN Delta(tool_name, Empty)
            ELSE LET content == partial.content
                 IN IF Len(content) = 0 THEN Delta(tool_name, Empty)
                    ELSE IF Len(prev_content) = 0 THEN Delta(tool_name, content)
                    ELSE IF ~StartsWith(content, prev_content)
                    THEN [err |-> "ValueError", tool_name |-> tool_name, delta |-> Empty]
                    ELSE Delta(tool_name, content)

\* a variant without the check of monotonic growth
ExtractPartialDelta_NoGrowthCheck(partial, prev_content) ==
    IF ~partial.isDict THEN EMPTY_DELTA
    ELSE LET tool_name == IF partial.name = NoneName THEN "" ELSE partial.name
         IN IF tool_name = "" \/ tool_name # REPLY_TO_USER THEN Delta(tool_name, Empty)
            ELSE IF partial.argsKind # "dict" THEN Delta(tool_name, Empty)
            ELSE IF partial.contentKind # "str" THEN Delta(tool_name, Empty)
            ELSE LET content == partial.content
                 IN IF Len(content) = 0 THEN Delta(tool_name, Empty)
                    ELSE IF Len(prev_content) = 0 THEN Delta(tool_name, content)
                    ELSE Delta(tool_name, SliceFrom(content, Len(prev_content)))

\* a variant that streams the content while the name is still empty
ExtractPartialDelta_StreamsUndecided(partial, prev_content) ==
    IF ~partial.isDict THEN EMPTY_DELTA
    ELSE LET tool_name == IF partial.name = NoneName THEN "" ELSE partial.name
         IN IF tool_name # "" /\ tool_name # REPLY_TO_USER THEN Delta(tool_name, Empty)
            ELSE IF partial.argsKind # "dict" THEN Delta(tool_name, Empty)
            ELSE IF partial.contentKind # "str" THEN Delta(tool_name, Empty)
            ELSE LET content == partial.content
                 IN IF Len(content) = 0 THEN Delta(tool_name, Empty)
                    ELSE IF Len(prev_content) = 0 THEN Delta(tool_name, content)
                    ELSE IF ~StartsWith(content, prev_content)
                    THEN [err |-> "ValueError", tool_name |-> tool_name, delta |-> Empty]
                    ELSE Delta(tool_name, SliceFrom(content, Len(prev_content)))

ExtractPartialDelta(partial, prev_content) ==
    IF ~partial.isDict THEN EMPTY_DELTA
    ELSE LET tool_name == IF partial.name = NoneName THEN "" ELSE partial.name
         IN IF tool_name = "" \/ tool_name # REPLY_TO_USER THEN Delta(tool_name, Empty)
            ELSE IF partial.argsKind # "dict" THEN Delta(tool_name, Empty)
            ELSE IF partial.contentKind # "str" THEN Delta(tool_name, Empty)
            ELSE LET content == partial.content
                 IN IF Len(content) = 0 THEN Delta(tool_name, Empty)
                    ELSE IF Len(prev_content) = 0 THEN Delta(tool_name, content)
                    ELSE IF ~StartsWith(content, prev_content)
                    THEN [err |-> "ValueError", tool_name |-> tool_name, delta |-> Empty]
                    ELSE Delta(tool_name, SliceFrom(content, Len(prev_content)))

\* -------------------------------------------------------------------------
\* ChatBaml._convert_to_ai_message
\* -------------------------------------------------------------------------
\* a message: type is the class, tool_calls the tool_calls / tool_call_chunks
Message(type, content, tool_calls) ==
    [type |-> type, content |-> content, tool_calls |-> tool_calls, id |-> NoneName]

\* json.dumps(arguments) if arguments else "{}"
JsonDumps(arguments) == [json |-> TRUE, v |-> arguments]

Converted(msg) == [err |-> "", msg |-> msg]
Failed(e) == [err |-> e, msg |-> Message("", Empty, <<>>)]

InSeq(x, seq) == \E i \in 1..Len(seq) : seq[i] = x

\* the streaming branch of _convert_to_ai_message
ConvertStreaming(tool_name, arguments, uuid) ==
    IF tool_name \in {NoneName, ""}
    THEN Converted(Message("AIMessageChunk", Empty, <<>>))
    ELSE IF tool_name = REPLY_TO_USER
    THEN IF arguments.contentKind # "str" \/ Len(arguments.content) = 0
         THEN Converted(Message("AIMessageChunk", Empty, <<>>))
         ELSE Converted(Message("AIMessageChunk", arguments.content, <<>>))
    ELSE Converted(Message("AIMessageChunk", Empty,
             <<[name |-> tool_name, args |-> JsonDumps(arguments), id |-> uuid]>>))

\* a variant that accepts any tool name
ConvertFinal_NoValidation(tool_name, arguments, tool_names, uuid) ==
    IF tool_name \in {NoneName, ""}
    THEN Converted(Message("AIMessage", Empty, <<>>))
    ELSE IF tool_name = REPLY_TO_USER
    THEN IF arguments.contentKind = "null" THEN Failed("ValidationError")
         ELSE Converted(Message("AIMessage", arguments.content, <<>>))
    ELSE Converted(Message("AIMessage", Empty,
             <<[name |-> tool_name, args |-> [json |-> FALSE, v |-> arguments],
                id |-> uuid]>>))

\* a variant that answers an unknown tool name with an empty text message
ConvertFinal_DowngradeUnknown(tool_name, arguments, tool_names, uuid) ==
    IF tool_name \in {NoneName, ""}
    THEN Converted(Message("AIMessage", Empty, <<>>))
    ELSE IF tool_name = REPLY_TO_USER
    THEN IF arguments.contentKind = "null" THEN Failed("ValidationError")
         ELSE Converted(Message("AIMessage", arguments.content, <<>>))
    ELSE IF tool_names = <<>> THEN Failed("AttributeError")
    ELSE IF ~InSeq(tool_name, tool_names)
    THEN Converted(Message("AIMessage", Empty, <<>>))
    ELSE Converted(Message("AIMessage", Empty,
             <<[name |-> tool_name, args |-> [json |-> FALSE, v |-> arguments],
                id |-> uuid]>>))

\* a variant that swaps the name and the id of the tool call
ConvertFinal_SwappedNameId(tool_name, arguments, tool_names, uuid) ==
    IF tool_name \in {NoneName, ""}
    THEN Converted(Message("AIMessage", Empty, <<>>))
    ELSE IF tool_name = REPLY_TO_USER
    THEN IF arguments.contentKind = "null" THEN Failed("ValidationError")
         ELSE Converted(Message("AIMessage", arguments.content, <<>>))
    ELSE IF tool_names = <<>> THEN Failed("AttributeError")
    ELSE IF ~InSeq(tool_name, tool_names) THEN Failed("ValueError")
    ELSE Converted(Message("AIMessage", Empty,
             <<[name |-> uuid, args |-> [json |-> FALSE, v |-> arguments],
                id |-> tool_name]>>))

\* the final / non-streaming branch of _convert_to_ai_message; tool_names is
\* self._tool_names (<<>> while bind_tools has not set it)
ConvertFinal(tool_name, arguments, tool_names, uuid) ==
    IF tool_name \in {NoneName, ""}
    THEN Converted(Message("AIMessage", Empty, <<>>))
    ELSE IF tool_name = REPLY_TO_USER
    THEN IF arguments.contentKind = "null" THEN Failed("ValidationError")
         ELSE Converted(Message("AIMessage", arguments.content, <<>>))
    ELSE IF tool_names = <<>> THEN Failed("AttributeError")
    ELSE IF ~InSeq(tool_name, tool_names) THEN Failed("ValueError")
    ELSE Converted(Message("AIMessage", Empty,
             <<[name |-> tool_name, args |-> [json |-> FALSE, v |-> arguments],
                id |-> uuid]>>))

\* ChatBaml._convert_to_ai_message; uuid is the value uuid.uuid4() draws
ConvertToAiMessage(dynamic_schema, is_streaming, tool_names, uuid) ==
    LET tool_name == IF dynamic_schema.isDict THEN dynamic_schema.name ELSE NoneName
        arguments == ArgumentsOf(dynamic_schema)
    IN IF is_streaming THEN ConvertStreaming(tool_name, arguments, uuid)
       ELSE ConvertFinal(tool_name, arguments, tool_names, uuid)

\* -------------------------------------------------------------------------
\* Tools: kind is "pydantic" (a BaseModel class) or "langchain" (a @tool),
\* schema what convert_to_openai_tool makes of the tool
\* -------------------------------------------------------------------------
Prop(name, schema) == [name |-> name, schema |-> schema]

FunctionSchema(name, description, properties, required) ==
    [type |-> "function",
     function |-> [name |-> name, description |-> description,
                   parameters |-> [type |-> "object", properties |-> properties,
                                   required |-> required]]]

Tool(kind, name, schema) == [kind |-> kind, name |-> name, schema |-> schema]

\* test/fixtures/sample_tools.py
CalculatorAdd ==
    Tool("pydantic", "CalculatorAdd",
         FunctionSchema("CalculatorAdd", "Add two numbers together",
             <<Prop("x", [type |-> "number", description |-> "First number"]),
               Prop("y", [type |-> "number", description |-> "Second number"])>>,
             <<"x", "y">>))

search_web ==
    Tool("langchain", "search_web",
         FunctionSchema("search_web", "Search the web for information",
             <<Prop("query", [type |-> "string"]),
               Prop("max_results", [type |-> "integer", default |-> DefaultOf(5)])>>,
             <<"query">>))

\* a tool with a nested model argument: convert_to_openai_tool inlines the
\* nested schema and removes its title
book_trip ==
    Tool("langchain", "book_trip",
         FunctionSchema("book_trip", "Book a trip",
             <<Prop("to", [type |-> "object",
                           properties |-> <<Prop("city", [type |-> "string"])>>,
                           required |-> <<"city">>])>>,
             <<"to">>))

\* cls.name if hasattr(cls, 'name') else cls.__name__
ToolName(tool) == tool.name

\* [ToolName(t) for t in tools] + [REPLY_TO_USER]
ToolNames(tools) == [i \in 1..Len(tools) |-> ToolName(tools[i])] \o <<REPLY_TO_USER>>

\* ChatBaml.property_name, default "selected_tool"
PropertyName == <<"s", "e", "l", "e", "c", "t", "e", "d", "_", "t", "o", "o", "l">>

\* _prepare_tb's except clause: whatever the conversion raises becomes a ValueError
WrapAsValueError(r) ==
    [err |-> IF r.err # "" THEN "ValueError" ELSE "", tb |-> r.tb]

\* ChatBaml._prepare_tb without tool_choice: "" or the ValueError that wraps
\* whatever convert_to_baml_tool raised
PrepareTb(tools) ==
    WrapAsValueError(ConvertToBamlTool(None, Some(tools), Some(PropertyName), FALSE, TRUE))

\* -------------------------------------------------------------------------
\* Inputs of the model
\* -------------------------------------------------------------------------
Uuids == 1..MaxUuid

\* the tool lists handed to bind_tools
ToolLists == {<<>>, <<CalculatorAdd>>, <<CalculatorAdd, search_web>>, <<book_trip>>}

\* tool_choice: None or the name of a tool
ToolChoices == {NoneName, "search_web"}

\* the partial snapshots the engine's stream may deliver
Partials ==
    {NoSlot, NoArgs(NoneName), NoArgs(""), WithContent("", Empty), WithContent("", Hel)}
    \cup {NoArgs(REPLY_TO_USER), EmptyArgs(REPLY_TO_USER), NullContent(REPLY_TO_USER),
          WithPayload(REPLY_TO_USER, "note")}
    \cup {WithContent(REPLY_TO_USER, t) : t \in Texts}
    \cup {NoArgs("CalculatorAdd"), WithPayload("CalculatorAdd", "x"),
          WithPayload("search_web", "query"), WithPayload("unknown_tool", "query")}

\* the complete responses the engine may return
Finals ==
    {NoSlot, NoArgs(""), NoArgs(REPLY_TO_USER), NullContent(REPLY_TO_USER),
     WithContent(REPLY_TO_USER, Empty), WithContent(REPLY_TO_USER, Hello),
     NoArgs("CalculatorAdd"), WithPayload("CalculatorAdd", "x,y"),
     WithPayload("search_web", "query"), WithPayload("unknown_tool", "query")}

\* section 8 of the specification: the reply-path example
ExampleStream ==
    <<WithContent("", Empty), WithContent("", Empty), WithContent(REPLY_TO_USER, Hel),
      WithContent(REPLY_TO_USER, Hello), WithContent(REPLY_TO_USER, HelloWorld)>>

\* -------------------------------------------------------------------------
\* State
\*   tool_names    self._tool_names of the one ChatBaml instance (<<>>: not set)
\*   runnables     the tools bound into each runnable bind_tools returned
\*   pc            "idle", "streaming" (inside the for loop of _stream),
\*                 "done" (the call returned), "error" (the call raised),
\*                 "closed" (the consumer closed the generator of _stream)
\*   mode          "stream" or "generate": the call that is running or ended
\*   err           the exception raised to the caller, "" if none
\*   prev_content, has_message  the locals prev_content and ai_message of _stream
\*   emitted       what _stream has yielded so far
\*   n             the number of partial snapshots consumed
\*   last          the last value _extract_partial_delta returned
\*   first_name    the first non-empty discriminant seen in this run ("" if none)
\*   example_pos   k when the snapshots consumed are the first k of
\*                 ExampleStream, -1 otherwise
\*   finals        the last two _generate calls that reached
\*                 _convert_to_ai_message: snapshot, tool names, the
\*                 runnable the call was made on, outcome
\* -------------------------------------------------------------------------
\*   cpc           "idle", "returned" or "raised": a call of the schema compiler
\*   call          the call of parse_json_schema or convert_to_baml_tool
\*   out           what the call left: the exception, the TypeBuilder, the
\*                 handle returned and the caches of the SchemaAdder
VARIABLES tool_names, runnables, pc, mode, err, prev_content, has_message,
          emitted, n, last, first_name, example_pos, finals, cpc, call, out

vars == <<tool_names, runnables, pc, mode, err, prev_content, has_message,
          emitted, n, last, first_name, example_pos, finals, cpc, call, out>>

chat_vars == <<tool_names, runnables, pc, mode, err, prev_content, has_message,
               emitted, n, last, first_name, example_pos, finals>>

compiler_vars == <<cpc, call, out>>

run_vars == <<pc, mode, err, prev_content, has_message, emitted, n, last,
              first_name, example_pos>>

\* an item _stream yields: a ChatGenerationChunk around a message, made from a
\* delta or from the final response, or the string "data: [CANCELLED]\n\n"
Chunk(msg, src) == [kind |-> "ChatGenerationChunk", msg |-> msg, src |-> src]
CancelledString == [kind |-> "str", msg |-> Message("", Empty, <<>>), src |-> "abort"]

Init ==
    /\ tool_names = <<>>
    /\ runnables = <<>>
    /\ pc = "idle"
    /\ mode = ""
    /\ err = ""
    /\ prev_content = Empty
    /\ has_message = FALSE
    /\ emitted = <<>>
    /\ n = 0
    /\ last = EMPTY_DELTA
    /\ first_name = ""
    /\ example_pos = 0
    /\ finals = <<>>
    /\ cpc = "idle"
    /\ call = [fn |-> ""]
    /\ out = [err |-> ""]

\* the tools bind_tools keeps when tool_choice names one
SelectTools(tools, tool_choice) ==
    IF tool_choice \notin {NoneName, ""}
    THEN SelectSeq(tools, LAMBDA t : ToolName(t) = tool_choice)
    ELSE tools

\* ChatBaml.bind_tools: a ValueError when tool_choice selects nothing, else
\* self._tool_names is overwritten and a runnable bound to the tools returned
BindTools(tools, tool_choice) ==
    /\ pc = "idle"
    /\ Len(runnables) < MaxBinds
    /\ LET tools_to_bind == SelectTools(tools, tool_choice)
       IN IF tool_choice \notin {NoneName, ""} /\ Len(tools_to_bind) = 0
          THEN UNCHANGED <<tool_names, runnables>>
          ELSE /\ tool_names' = ToolNames(tools_to_bind)
               /\ runnables' = Append(runnables, tools_to_bind)
    /\ UNCHANGED <<run_vars, finals>>
    /\ UNCHANGED compiler_vars

\* the tools keyword of a call: those of runnable r, [] on the bare model
BoundTools(r) == IF r = 0 THEN <<>> ELSE runnables[r]

\* ChatBaml._stream up to the for loop: _prepare_tb, then the engine's stream
StartStream(r) ==
    /\ pc = "idle"
    /\ mode' = "stream"
    /\ err' = PrepareTb(BoundTools(r)).err
    /\ pc' = IF err' # "" THEN "error" ELSE "streaming"
    /\ prev_content' = Empty
    /\ has_message' = FALSE
    /\ emitted' = <<>>
    /\ n' = 0
    /\ last' = EMPTY_DELTA
    /\ first_name' = ""
    /\ example_pos' = 0
    /\ finals' = <<>>
    /\ UNCHANGED <<tool_names, runnables>>
    /\ UNCHANGED compiler_vars

\* what stream.get_final_response() may do: return a response or raise
FinalOutcomes ==
    [raised : {""}, final : Finals] \cup [raised : {"BamlAbortError", "Exception"}, final : {NoSlot}]

\* what iterating the engine's stream may raise instead of giving a snapshot
StreamErrors == {"BamlAbortError", "Exception"}

\* a variant in which the loop goes on after the tool call was yielded
AfterToolCall_NoBreak == "streaming"

\* the break after the tool call was yielded: the loop and _stream end
AfterToolCall == "done"

\* a variant that builds the message of a tool call from the partial snapshot
StreamNext_FromPartial(partial) ==
    /\ pc = "streaming"
    /\ n < MaxSnapshots
    /\ n' = n + 1
    /\ LET partial_delta == ExtractPartialDelta(partial, prev_content)
           delta == partial_delta.delta
       IN /\ last' = partial_delta
          /\ first_name' = IF first_name = "" THEN partial_delta.tool_name ELSE first_name
          /\ example_pos' = IF /\ example_pos = n
                               /\ n < Len(ExampleStream)
                               /\ partial = ExampleStream[n + 1]
                            THEN n + 1 ELSE -1
          /\ IF partial_delta.err # ""
             THEN /\ pc' = "error"
                  /\ err' = partial_delta.err
                  /\ UNCHANGED <<prev_content, has_message, emitted>>
             ELSE IF partial_delta.tool_name \notin {"", REPLY_TO_USER}
             THEN \E outcome \in FinalOutcomes, uuid \in Uuids :
                    IF outcome.raised = ""
                    THEN LET ai_message ==
                                 ConvertToAiMessage(partial, TRUE, tool_names, uuid).msg
                         IN /\ emitted' = Append(emitted, Chunk(ai_message, "final"))
                            /\ has_message' = TRUE
                            /\ pc' = AfterToolCall
                            /\ UNCHANGED <<err, prev_content>>
                    ELSE IF outcome.raised = "BamlAbortError"
                    THEN /\ emitted' = Append(emitted, CancelledString)
                         /\ pc' = "done"
                         /\ UNCHANGED <<err, prev_content, has_message>>
                    ELSE /\ pc' = "error"
                         /\ err' = outcome.raised
                         /\ UNCHANGED <<prev_content, has_message, emitted>>
             ELSE IF Len(delta) = 0
             THEN UNCHANGED <<pc, err, prev_content, has_message, emitted>>
             ELSE /\ emitted' = Append(emitted,
                                    Chunk(Message("AIMessageChunk", delta, <<>>), "delta"))
                  /\ has_message' = TRUE
                  /\ prev_content' = prev_content \o delta
                  /\ UNCHANGED <<pc, err>>
    /\ UNCHANGED <<tool_names, runnables, mode, finals>>
    /\ UNCHANGED compiler_vars

\* a variant that flushes the tool call of the partial snapshot when the engine
\* aborts while the final response is awaited
StreamNext_FlushOnAbort(partial) ==
    /\ pc = "streaming"
    /\ n < MaxSnapshots
    /\ n' = n + 1
    /\ LET partial_delta == ExtractPartialDelta(partial, prev_content)
           delta == partial_delta.delta
       IN /\ last' = partial_delta
          /\ first_name' = IF first_name = "" THEN partial_delta.tool_name ELSE first_name
          /\ example_pos' = IF /\ example_pos = n
                               /\ n < Len(ExampleStream)
                               /\ partial = ExampleStream[n + 1]
                            THEN n + 1 ELSE -1
          /\ IF partial_delta.err # ""
             THEN /\ pc' = "error"
                  /\ err' = partial_delta.err
                  /\ UNCHANGED <<prev_content, has_message, emitted>>
             ELSE IF partial_delta.tool_name \notin {"", REPLY_TO_USER}
             THEN \E outcome \in FinalOutcomes, uuid \in Uuids :
                    IF outcome.raised = ""
                    THEN LET ai_message ==
                                 ConvertToAiMessage(outcome.final, TRUE, tool_names, uuid).msg
                         IN /\ emitted' = Append(emitted, Chunk(ai_message, "final"))
                            /\ has_message' = TRUE
                            /\ pc' = AfterToolCall
                            /\ UNCHANGED <<err, prev_content>>
                    ELSE IF outcome.raised = "BamlAbortError"
                    THEN /\ emitted' = emitted \o
                                <<Chunk(ConvertToAiMessage(partial, TRUE, tool_names, uuid).msg,
                                        "partial"),
                                  CancelledString>>
                         /\ pc' = "done"
                         /\ UNCHANGED <<err, prev_content, has_message>>
                    ELSE /\ pc' = "error"
                         /\ err' = outcome.raised
                         /\ UNCHANGED <<prev_content, has_message, emitted>>
             ELSE IF Len(delta) = 0
             THEN UNCHANGED <<pc, err, prev_content, has_message, emitted>>
             ELSE /\ emitted' = Append(emitted,
                                    Chunk(Message("AIMessageChunk", delta, <<>>), "delta"))
                  /\ has_message' = TRUE
                  /\ prev_content' = prev_content \o delta
                  /\ UNCHANGED <<pc, err>>
    /\ UNCHANGED <<tool_names, runnables, mode, finals>>
    /\ UNCHANGED compiler_vars

\* _stream without the update of prev_content after a yielded delta
StreamNext_KeepsPrev(partial) ==
    /\ pc = "streaming"
    /\ n < MaxSnapshots
    /\ n' = n + 1
    /\ LET partial_delta == ExtractPartialDelta(partial, prev_content)
           delta == partial_delta.delta
       IN /\ last' = partial_delta
          /\ first_name' = IF first_name = "" THEN partial_delta.tool_name ELSE first_name
          /\ example_pos' = IF /\ example_pos = n
                               /\ n < Len(ExampleStream)
                               /\ partial = ExampleStream[n + 1]
                            THEN n + 1 ELSE -1
          /\ IF partial_delta.err # ""
             THEN /\ pc' = "error"
                  /\ err' = partial_delta.err
                  /\ UNCHANGED <<prev_content, has_message, emitted>>
             ELSE IF partial_delta.tool_name \notin {"", REPLY_TO_USER}
             THEN \E outcome \in FinalOutcomes, uuid \in Uuids :
                    IF outcome.raised = ""
                    THEN LET ai_message ==
                                 ConvertToAiMessage(outcome.final, TRUE, tool_names, uuid).msg
                         IN /\ emitted' = Append(emitted, Chunk(ai_message, "final"))
                            /\ has_message' = TRUE
                            /\ pc' = AfterToolCall
                            /\ UNCHANGED <<err, prev_content>>
                    ELSE IF outcome.raised = "BamlAbortError"
                    THEN /\ emitted' = Append(emitted, CancelledString)
                         /\ pc' = "done"
                         /\ UNCHANGED <<err, prev_content, has_message>>
                    ELSE /\ pc' = "error"
                         /\ err' = outcome.raised
                         /\ UNCHANGED <<prev_content, has_message, emitted>>
             ELSE IF Len(delta) = 0
             THEN UNCHANGED <<pc, err, prev_content, has_message, emitted>>
             ELSE /\ emitted' = Append(emitted,
                                    Chunk(Message("AIMessageChunk", delta, <<>>), "delta"))
                  /\ has_message' = TRUE
                  /\ UNCHANGED <<pc, err, prev_content>>
    /\ UNCHANGED <<tool_names, runnables, mode, finals>>
    /\ UNCHANGED compiler_vars

\* one pass of the for loop of ChatBaml._stream over the snapshot partial
StreamNext(partial) ==
    /\ pc = "streaming"
    /\ n < MaxSnapshots
    /\ n' = n + 1
    /\ LET partial_delta == ExtractPartialDelta(partial, prev_content)
           delta == partial_delta.delta
       IN /\ last' = partial_delta
          /\ first_name' = IF first_name = "" THEN partial_delta.tool_name ELSE first_name
          /\ example_pos' = IF /\ example_pos = n
                               /\ n < Len(ExampleStream)
                               /\ partial = ExampleStream[n + 1]
                            THEN n + 1 ELSE -1
          /\ IF partial_delta.err # ""
             THEN /\ pc' = "error"
                  /\ err' = partial_delta.err
                  /\ UNCHANGED <<prev_content, has_message, emitted>>
             ELSE IF partial_delta.tool_name \notin {"", REPLY_TO_USER}
             THEN \E outcome \in FinalOutcomes, uuid \in Uuids :
                    IF outcome.raised = ""
                    THEN LET ai_message ==
                                 ConvertToAiMessage(outcome.final, TRUE, tool_names, uuid).msg
                         IN /\ emitted' = Append(emitted, Chunk(ai_message, "final"))
                            /\ has_message' = TRUE
                            /\ pc' = AfterToolCall
                            /\ UNCHANGED <<err, prev_content>>
                    ELSE IF outcome.raised = "BamlAbortError"
                    THEN /\ emitted' = Append(emitted, CancelledString)
                         /\ pc' = "done"
                         /\ UNCHANGED <<err, prev_content, has_message>>
                    ELSE /\ pc' = "error"
                         /\ err' = outcome.raised
                         /\ UNCHANGED <<prev_content, has_message, emitted>>
             ELSE IF Len(delta) = 0
             THEN UNCHANGED <<pc, err, prev_content, has_message, emitted>>
             ELSE /\ emitted' = Append(emitted,
                                    Chunk(Message("AIMessageChunk", delta, <<>>), "delta"))
                  /\ has_message' = TRUE
                  /\ prev_content' = prev_content \o delta
                  /\ UNCHANGED <<pc, err>>
    /\ UNCHANGED <<tool_names, runnables, mode, finals>>
    /\ UNCHANGED compiler_vars

\* the engine's stream is exhausted: the for loop and _stream end
StreamExhausted ==
    /\ pc = "streaming"
    /\ pc' = "done"
    /\ UNCHANGED <<tool_names, runnables, mode, err, prev_content, has_message,
                   emitted, n, last, first_name, example_pos, finals>>
    /\ UNCHANGED compiler_vars

\* the engine's stream raises e: BamlAbortError is caught and answered by
\* yielding the string, any other exception leaves _stream
StreamRaises(e) ==
    /\ pc = "streaming"
    /\ IF e = "BamlAbortError"
       THEN /\ emitted' = Append(emitted, CancelledString)
            /\ pc' = "done"
            /\ UNCHANGED err
       ELSE /\ pc' = "error"
            /\ err' = e
            /\ UNCHANGED emitted
    /\ UNCHANGED <<tool_names, runnables, mode, prev_content, has_message,
                   n, last, first_name, example_pos, finals>>
    /\ UNCHANGED compiler_vars

\* the consumer stops pulling: the generator is closed at the yield it is
\* suspended at (GeneratorExit is no BamlAbortError) and yields nothing more
StreamClosed ==
    /\ pc = "streaming"
    /\ emitted # <<>>
    /\ pc' = "closed"
    /\ UNCHANGED <<tool_names, runnables, mode, err, prev_content, has_message,
                   emitted, n, last, first_name, example_pos, finals>>
    /\ UNCHANGED compiler_vars

Last2(seq) == IF Len(seq) <= 2 THEN seq ELSE SubSeq(seq, Len(seq) - 1, Len(seq))

\* ChatBaml._generate after _prepare_tb: the engine call, then the finalizer
GenerateWith(prepared, r) ==
    IF prepared.err # ""
    THEN /\ pc' = "error"
         /\ err' = prepared.err
         /\ UNCHANGED finals
    ELSE \E outcome \in FinalOutcomes, uuid \in Uuids :
           IF outcome.raised # ""
           THEN /\ pc' = "error"
                /\ err' = "RuntimeError"
                /\ UNCHANGED finals
           ELSE /\ finals' = Last2(Append(finals,
                                [snapshot |-> outcome.final, tool_names |-> tool_names,
                                 runnable |-> r,
                                 err |-> ConvertToAiMessage(outcome.final, FALSE, tool_names, uuid).err,
                                 msg |-> ConvertToAiMessage(outcome.final, FALSE, tool_names, uuid).msg]))
                /\ err' = finals'[Len(finals')].err
                /\ pc' = IF err' # "" THEN "error" ELSE "done"

\* ChatBaml._generate on runnable r: _prepare_tb, the engine call (which
\* returns dynamic_schema or raises), then _convert_to_ai_message with the
\* value uuid4 draws
Generate(r) ==
    /\ pc = "idle"
    /\ mode' = "generate"
    /\ prev_content' = Empty
    /\ has_message' = FALSE
    /\ emitted' = <<>>
    /\ n' = 0
    /\ last' = EMPTY_DELTA
    /\ first_name' = ""
    /\ example_pos' = 0
    /\ GenerateWith(PrepareTb(BoundTools(r)), r)
    /\ UNCHANGED <<tool_names, runnables>>
    /\ UNCHANGED compiler_vars

\* the caller is done with the call and the instance is free for the next one
Finish ==
    /\ pc \in {"done", "error", "closed"}
    /\ pc' = "idle"
    /\ mode' = ""
    /\ err' = ""
    /\ prev_content' = Empty
    /\ has_message' = FALSE
    /\ emitted' = <<>>
    /\ n' = 0
    /\ last' = EMPTY_DELTA
    /\ first_name' = ""
    /\ example_pos' = 0
    /\ UNCHANGED <<tool_names, runnables, finals>>
    /\ UNCHANGED compiler_vars

Next ==
    \/ \E tools \in ToolLists, tool_choice \in ToolChoices : BindTools(tools, tool_choice)
    \/ \E r \in 0..Len(runnables) : StartStream(r)
    \/ \E partial \in Partials : StreamNext(partial)
    \/ StreamExhausted
    \/ \E e \in StreamErrors : StreamRaises(e)
    \/ StreamClosed
    \/ \E r \in 0..Len(runnables) : Generate(r)
    \/ Finish

Spec == Init /\ [][Next]_vars

\* -------------------------------------------------------------------------
\* Properties of the stream reconciler and of the finalizer
\* -------------------------------------------------------------------------
\* the snapshot names reply_to_user and carries a string content
IsReplyContent(p) ==
    /\ p.isDict
    /\ p.name = REPLY_TO_USER
    /\ p.argsKind = "dict"
    /\ p.contentKind = "str"

\* the deltas of ExampleStream, in order
ExampleDeltas ==
    <<Empty, Empty, Hel, <<"l", "o">>, <<" ", "w", "o", "r", "l", "d">>>>

\* the text of the delta chunks yielded so far
RECURSIVE EmittedText(_)
EmittedText(items) ==
    IF items = <<>> THEN Empty
    ELSE IF items[1].src = "delta" THEN items[1].msg.content \o EmittedText(Tail(items))
    ELSE EmittedText(Tail(items))

\* C1: on the reply path a snapshot whose content extends the text streamed so
\* far gives the delta content[len(prev_content):] without error (the empty
\* delta when nothing was added) and leaves prev_content equal to the content;
\* the snapshots of ExampleStream give ExampleDeltas in that order, no error.
C1_ReplyDeltaIsSuffix ==
    /\ [][\A p \in Partials :
            (StreamNext(p) /\ IsReplyContent(p) /\ StartsWith(p.content, prev_content))
            => /\ last'.err = ""
               /\ pc' = "streaming"
               /\ last'.tool_name = REPLY_TO_USER
               /\ last'.delta = SliceFrom(p.content, Len(prev_content))
               /\ prev_content' = p.content]_vars
    /\ [](example_pos >= 1 =>
            /\ err # "ValueError"
            /\ last.err = ""
            /\ last.delta = ExampleDeltas[example_pos])

\* C1 witness: the five snapshots of the example were consumed, the last delta
\* was " world"
C1_Witness ==
    /\ example_pos = 5
    /\ pc = "streaming"
    /\ last.delta = ExampleDeltas[5]
    /\ Len(emitted) = 3
    /\ prev_content = HelloWorld

\* C2: on the reply path a snapshot whose non-empty content does not start
\* with the text streamed so far ("Hello" then "Hell") raises ValueError on
\* that snapshot: the earlier deltas stay emitted, nothing is emitted for the
\* violating snapshot, and the run consumes no later snapshot.
C2_ShrinkRaises ==
    /\ [][\A p \in Partials :
            (/\ StreamNext(p)
             /\ IsReplyContent(p)
             /\ Len(p.content) > 0
             /\ Len(prev_content) > 0
             /\ ~StartsWith(p.content, prev_content))
            => /\ pc' = "error"
               /\ err' = "ValueError"
               /\ emitted' = emitted
               /\ emitted # <<>>
               /\ EmittedText(emitted) = prev_content]_vars
    /\ [][pc = "error" => (pc' = "idle" /\ emitted' = <<>>)]_vars

\* C2 witness: "Hello" was streamed and the second snapshot raised
C2_Witness ==
    /\ mode = "stream"
    /\ pc = "error"
    /\ err = "ValueError"
    /\ n = 2
    /\ prev_content = Hello
    /\ Len(emitted) = 1

\* the number of items made from the engine's final response
RECURSIVE ActionCount(_)
ActionCount(items) ==
    IF items = <<>> THEN 0
    ELSE (IF items[1].src = "final" THEN 1 ELSE 0) + ActionCount(Tail(items))

\* the run ended without an exception reaching the caller
StreamEnded == mode = "stream" /\ pc = "done"

\* the last snapshot consumed named an action other than reply_to_user
Routed == last.tool_name \notin {"", REPLY_TO_USER}

C4_DiscriminantChangeRaises ==
    (/\ mode = "stream"
     /\ first_name # ""
     /\ last.tool_name # ""
     /\ last.tool_name # first_name)
    => (pc = "error" /\ err = "ValueError")

\* C4 failing run: text deltas were emitted for reply_to_user, then a snapshot
\* named a tool and the run ended normally with the tool call
C4_Diverges ==
    /\ StreamEnded
    /\ first_name = REPLY_TO_USER
    /\ Routed
    /\ Len(emitted) >= 2
    /\ emitted[Len(emitted)].msg.tool_calls # <<>>

\* the snapshot names an action that is neither reply_to_user nor in names
IsUnregistered(snapshot, names) ==
    /\ snapshot.isDict
    /\ snapshot.name \notin {NoneName, "", REPLY_TO_USER}
    /\ ~InSeq(snapshot.name, names)

\* C5: finalizing a complete snapshot (is_streaming = False) whose discriminant
\* is a non-empty name that is neither reply_to_user nor in self._tool_names
\* raises ValueError and returns no message.
C5_UnknownToolRaises ==
    /\ [](\A i \in 1..Len(finals) :
            IsUnregistered(finals[i].snapshot, finals[i].tool_names)
            => /\ finals[i].err = "ValueError"
               /\ finals[i].msg.type = ""
               /\ finals[i].msg.tool_calls = <<>>)
    /\ [][(finals' # finals /\ finals' # <<>>)
          => /\ finals'[Len(finals')].tool_names = tool_names
             /\ err' = finals'[Len(finals')].err
             /\ pc' = IF err' = "" THEN "done" ELSE "error"]_vars

\* C5 witness: _generate got "unknown_tool" from the engine and raised
C5_Witness ==
    /\ mode = "generate"
    /\ pc = "error"
    /\ err = "ValueError"
    /\ finals # <<>>
    /\ finals[Len(finals)].snapshot.name = "unknown_tool"
    /\ Len(tool_names) >= 2

\* C6 as claimed: every tool call a streamed run emits names a tool of the
\* registered action-name set.
C6_StreamedToolIsRegistered ==
    mode = "stream" =>
        \A i \in 1..Len(emitted) :
            \A j \in 1..Len(emitted[i].msg.tool_calls) :
                InSeq(emitted[i].msg.tool_calls[j].name, tool_names)

IsUndecided(snapshot) == ~snapshot.isDict \/ snapshot.name \in {NoneName, ""}

SameSnapshotTwice ==
    /\ Len(finals) = 2
    /\ finals[1].snapshot = finals[2].snapshot
    /\ finals[1].tool_names = finals[2].tool_names

WithoutIds(msg) ==
    [msg EXCEPT !.tool_calls =
        [j \in 1..Len(msg.tool_calls) |->
            [name |-> msg.tool_calls[j].name, args |-> msg.tool_calls[j].args]]]

MaxTools == 2

StringNode == [type |-> "string"]
IntegerNode == [type |-> "integer"]
ColorEnum == [type |-> "string", title |-> "Color", enum |-> <<"a", "b">>]
AnonymousEnum == [type |-> "string", enum |-> <<"a", "b">>]
SizeEnum == [type |-> "string", title |-> "Size", enum |-> <<"l", "s", "m">>]
Addr ==
    [type |-> "object", title |-> "Addr",
     properties |-> <<Prop("city", StringNode)>>, required |-> <<"city">>]

Ref(section, name) == [ref |-> <<"#", section, name>>]

\* a definition that refers to itself, and one that refers to another
Node ==
    [type |-> "object", title |-> "Node",
     properties |-> <<Prop("value", IntegerNode), Prop("next", Ref("$defs", "Node"))>>,
     required |-> <<"value">>]
Owner ==
    [type |-> "object", title |-> "Owner",
     properties |-> <<Prop("home", Ref("$defs", "Addr"))>>, required |-> <<"home">>]

\* the function-wrapper schema {x: int, y: int = 5}
AddXY ==
    FunctionSchema("add", "Add two integers",
        <<Prop("x", IntegerNode),
          Prop("y", [type |-> "integer", default |-> DefaultOf(5)])>>,
        <<"x">>)

Definitions ==
    ("$defs" :> ((<<"Addr">> :> Addr) @@ (<<"Node">> :> Node) @@ (<<"Owner">> :> Owner)
                 @@ (<<"Color">> :> ColorEnum)))
    @@ ("empty" :> NoFn)

\* anyOf nodes that also carry a type or a $ref; two branches are the same
\* reference, two the same primitive, one is an anyOf itself
AnyOfWithType ==
    [anyOf |-> <<StringNode, IntegerNode, Ref("$defs", "Addr"), Ref("$defs", "Addr")>>,
     type |-> "string", sections |-> Definitions]
AnyOfWithRef ==
    [anyOf |-> <<IntegerNode, IntegerNode, [anyOf |-> <<StringNode, [type |-> "null"]>>]>>,
     ref |-> <<"#", "$defs", "Addr">>, type |-> "object", sections |-> Definitions]

\* properties that are required or not, with a default, without one, and
\* with the explicit default null
OptProps ==
    <<Prop("a", IntegerNode),
      Prop("b", [type |-> "integer", default |-> DefaultOf(5)]),
      Prop("c", IntegerNode),
      Prop("d", [type |-> "integer", default |-> DefaultOf(5)]),
      Prop("e", [type |-> "integer", default |-> NoDefault])>>
OptRequired == <<"a", "b">>

Object(title, properties, required) ==
    [type |-> "object", title |-> title, properties |-> properties,
     required |-> required, sections |-> Definitions]

\* the documents handed to parse_json_schema
Documents ==
    {Object("Person", <<Prop("home", Addr), Prop("work", Addr)>>, <<"home">>),
     Object("Person", <<Prop("home", Ref("$defs", "Addr")),
                        Prop("work", Ref("$defs", "Addr"))>>, <<"home">>),
     Object("Person", <<Prop("owner", Ref("$defs", "Owner")),
                        Prop("home", Ref("$defs", "Addr")),
                        Prop("past", [type |-> "array", items |-> Ref("$defs", "Addr")])>>,
            <<>>),
     Object("Palette", <<Prop("fg", ColorEnum), Prop("bg", ColorEnum)>>, <<"fg", "bg">>),
     Object("Palette", <<Prop("fg", Ref("$defs", "Color")),
                         Prop("bg", Ref("$defs", "Color")),
                         Prop("mode", AnonymousEnum)>>, <<"fg">>),
     Object("List", <<Prop("head", Ref("$defs", "Node"))>>, <<>>),
     Object("Bag", <<Prop("meta", [type |-> "object"]),
                     Prop("size", [type |-> "integer", default |-> DefaultOf(5),
                                   description |-> "How many"])>>, <<>>),
     Object("Broken", <<Prop("a", Ref("definitions", "Addr"))>>, <<>>),
     Object("Broken", <<Prop("a", Ref("$defs", "Missing"))>>, <<>>),
     Object("Broken", <<Prop("a", Ref("empty", "Addr"))>>, <<>>),
     Object("Broken", <<Prop("a", [ref |-> <<"#", "$defs">>])>>, <<>>),
     Object("Broken", <<Prop("a", [ref |-> <<"http:", "", "host", "Addr">>])>>, <<>>),
     Object("Broken", <<Prop("a", [type |-> "tuple"])>>, <<>>),
     Object("Broken", <<Prop("a", [type |-> "object",
                                   properties |-> <<Prop("b", StringNode)>>])>>, <<>>),
     AnyOfWithType,
     AnyOfWithRef,
     [anyOf |-> <<>>, type |-> "integer"],
     [additionalProperties |-> [anyOf |-> <<StringNode, [type |-> "number"]>>],
      type |-> "object", sections |-> Definitions],
     [ref |-> <<"#", "$defs", "Node">>, sections |-> Definitions],
     [type |-> "array", items |-> [type |-> "boolean"]],
     [type |-> "null"],
     [title |-> "Untyped"],
     Object("Opts", OptProps, OptRequired),
     FunctionSchema("opts", "Options", OptProps, OptRequired),
     ColorEnum,
     AnonymousEnum,
     SizeEnum,
     [type |-> "string", title |-> "Blank", enum |-> <<>>],
     AddXY,
     CalculatorAdd.schema,
     search_web.schema,
     book_trip.schema}

\* the sequences over S of length at most k
RECURSIVE SeqsUpTo(_, _)
SeqsUpTo(S, k) ==
    IF k = 0 THEN {<<>>}
    ELSE SeqsUpTo(S, k - 1) \cup {Append(q, x) : q \in SeqsUpTo(S, k - 1), x \in S}

\* the arguments of convert_to_baml_tool
ConvertTbArgs ==
    {None, Some(NewTypeBuilder),
     Some(AddDynamicProperty(NewTypeBuilder, <<"u", "s", "e", "r", "_", "i", "d">>, StringT))}
ConvertToolsArgs ==
    {None} \cup {Some(l) : l \in SeqsUpTo({CalculatorAdd, search_web, book_trip}, MaxTools)}
ConvertNameArgs ==
    {None, Some(Empty), Some(<<" ">>), Some(<<" ", "\t">>), Some(PropertyName),
     Some(<<" ", "t">>)}

\* a call of parse_json_schema(json_schema, TypeBuilder())
ParseSchema(json_schema) ==
    /\ cpc = "idle"
    /\ call' = [fn |-> "parse_json_schema", json_schema |-> json_schema]
    /\ out' = ParseJsonSchema(json_schema, NewTypeBuilder)
    /\ cpc' = IF out'.err = "" THEN "returned" ELSE "raised"
    /\ UNCHANGED chat_vars

\* a call of convert_to_baml_tool
Convert(tb, tools, property_name, is_multiple_tools, include_reply_to_user) ==
    /\ cpc = "idle"
    /\ call' = [fn |-> "convert_to_baml_tool", tb |-> tb, tools |-> tools,
                property_name |-> property_name,
                is_multiple_tools |-> is_multiple_tools,
                include_reply_to_user |-> include_reply_to_user]
    /\ out' = ConvertToBamlTool(tb, tools, property_name, is_multiple_tools,
                                include_reply_to_user)
    /\ cpc' = IF out'.err = "" THEN "returned" ELSE "raised"
    /\ UNCHANGED chat_vars

\* the caller takes the outcome; the next call starts afresh
CompilerDone ==
    /\ cpc \in {"returned", "raised"}
    /\ cpc' = "idle"
    /\ call' = [fn |-> ""]
    /\ out' = [err |-> ""]
    /\ UNCHANGED chat_vars

NextCompile ==
    \/ \E json_schema \in Documents : ParseSchema(json_schema)
    \/ \E tb \in ConvertTbArgs, tools \in ConvertToolsArgs, property_name \in ConvertNameArgs,
          is_multiple_tools \in BOOLEAN, include_reply_to_user \in BOOLEAN :
           Convert(tb, tools, property_name, is_multiple_tools, include_reply_to_user)
    \/ CompilerDone

SpecCompile == Init /\ [][NextCompile]_vars

\* -------------------------------------------------------------------------
\* Properties of the schema compiler
\* -------------------------------------------------------------------------
NoRepeat(seq) == \A i, j \in 1..Len(seq) : seq[i] = seq[j] => i = j

\* the names handed to tb.add_class and tb.add_enum, in call order
ClassNames(tb) == [i \in 1..Len(tb.classes) |-> tb.classes[i].name]
EnumNames(tb) == [i \in 1..Len(tb.enums) |-> tb.enums[i].name]

\* C9 as claimed: within one compilation session no class name and no enum
\* name is registered more than once.
C9_NoDuplicateRegistration ==
    cpc \in {"returned", "raised"} =>
        /\ NoRepeat(ClassNames(out.tb))
        /\ NoRepeat(EnumNames(out.tb))

\* C10 as claimed: within one compiler instance the referent of every
\* reference path is compiled exactly once, however often the path is used.
C10_RefCompiledOnce ==
    (cpc \in {"returned", "raised"} /\ call.fn = "parse_json_schema")
    => NoRepeat(out.ref_parses)

\* the properties of the class a handle was made for
PropsOf(tb, t) == tb.classes[t.id].props

\* parse_json_schema(AddXY, TypeBuilder()) has returned
CompiledAddXY ==
    /\ cpc = "returned"
    /\ call.fn = "parse_json_schema"
    /\ call.json_schema = AddXY

\* C11 as claimed: the function-wrapper schema {x: int, y: int = 5} compiles
\* to an outer selector class with a literal name and an `arguments` field
\* whose type is a generated nested class, in which x is a required int and y
\* an optional int.
C11_FunctionIsTwoLevel ==
    CompiledAddXY =>
        /\ out.ret.k = "class"
        /\ LET outer == PropsOf(out.tb, out.ret)
           IN /\ Len(outer) = 2
              /\ outer[1].type.k = "literal"
              /\ outer[2].name = "arguments"
              /\ outer[2].type.k = "class"
              /\ outer[2].type.id # out.ret.id
              /\ LET inner == PropsOf(out.tb, outer[2].type)
                 IN /\ Len(inner) = 2
                    /\ inner[1].name = "x" /\ inner[1].type = IntT
                    /\ inner[2].name = "y" /\ inner[2].type = OptionalT(IntT)

\* the handle of a node that has nothing but a primitive type
PrimitiveT(type) ==
    CASE type = "string" -> StringT
      [] type = "number" -> FloatT
      [] type = "integer" -> IntT
      [] type = "boolean" -> BoolT
      [] type = "null" -> NullT

\* t is the compilation of branch: a union as long as the branch's own anyOf,
\* the class the reference names, or the primitive
IsCompilationOf(branch, t) ==
    IF Has(branch, "anyOf") THEN t.k = "union" /\ Len(t.of) = Len(branch.anyOf)
    ELSE IF Has(branch, "ref") THEN t.k = "class" /\ t.name = branch.ref[3]
    ELSE t = PrimitiveT(branch.type)

\* parse_json_schema of a node with at least one anyOf branch has returned
CompiledAnyOf ==
    /\ cpc = "returned"
    /\ call.fn = "parse_json_schema"
    /\ Has(call.json_schema, "anyOf")
    /\ Len(call.json_schema.anyOf) > 0

\* C12: an anyOf node with N branches compiles to a union of exactly N
\* variants, the i-th being the compilation of the i-th branch, with equal
\* branches kept apart and nested unions kept nested, whatever $ref or type
\* the node also has.
C12_AnyOfIsUnionInOrder ==
    CompiledAnyOf =>
        /\ out.ret.k = "union"
        /\ Len(out.ret.of) = Len(call.json_schema.anyOf)
        /\ \A i \in 1..Len(out.ret.of) :
              IsCompilationOf(call.json_schema.anyOf[i], out.ret.of[i])
        /\ call.json_schema = AnyOfWithType =>
              out.ret = UnionT(<<StringT, IntT, ClassT("Addr", 1), ClassT("Addr", 1)>>)
        /\ call.json_schema = AnyOfWithRef =>
              /\ out.ret = UnionT(<<IntT, IntT, UnionT(<<StringT, NullT>>)>>)
              /\ out.tb.classes = <<>>

\* C12 witness: a four-branch anyOf on a node that also has a type, two of
\* whose branches compile to the same handle, has been compiled
C12_Witness ==
    /\ CompiledAnyOf
    /\ call.json_schema = AnyOfWithType
    /\ Len(out.ret.of) = 4
    /\ out.ret.of[3] = out.ret.of[4]

\* parse_json_schema of a string node that lists enum values has returned
CompiledEnum ==
    /\ cpc = "returned"
    /\ call.fn = "parse_json_schema"
    /\ DOMAIN call.json_schema \subseteq {"type", "title", "enum"}
    /\ Has(call.json_schema, "type") /\ call.json_schema.type = "string"
    /\ Has(call.json_schema, "enum") /\ Len(call.json_schema.enum) > 0

\* C13: a string node with an enum list compiles, with a title, to an
\* enumeration of that name holding exactly the listed values in the listed
\* order, and without a title to a union of one literal per listed value in
\* the listed order, no enumeration being registered.
C13_EnumNamedOrLiterals ==
    CompiledEnum =>
        IF Has(call.json_schema, "title")
        THEN /\ out.ret.k = "enum"
             /\ out.ret.name = call.json_schema.title
             /\ Len(out.tb.enums) = 1
             /\ out.tb.enums[out.ret.id].name = call.json_schema.title
             /\ out.tb.enums[out.ret.id].values = call.json_schema.enum
        ELSE /\ out.ret.k = "union"
             /\ Len(out.ret.of) = Len(call.json_schema.enum)
             /\ \A i \in 1..Len(out.ret.of) :
                   out.ret.of[i] = LiteralT(call.json_schema.enum[i])
             /\ out.tb.enums = <<>>

\* C13 witness: the titled enum l, s, m has been compiled to the
\* enumeration Size
C13_Witness ==
    /\ CompiledEnum
    /\ call.json_schema = SizeEnum
    /\ out.ret = EnumT("Size", 1)
    /\ out.tb.enums[1].values = <<"l", "s", "m">>

\* convert_to_baml_tool has returned or raised
ConvertCallEnded ==
    /\ cpc \in {"returned", "raised"}
    /\ call.fn = "convert_to_baml_tool"

\* the tools argument is None or an empty list
NoTools(c) == c.tools.none \/ Len(c.tools.v) = 0

\* the property_name argument is None, empty or whitespace
BlankName(c) == c.property_name.none \/ Len(Strip(c.property_name.v)) = 0

\* C14 as claimed: assembling with an empty tool list and the reply action
\* included succeeds, the slot holding the reply action alone.
C14_EmptyToolsWithReplySucceeds ==
    (/\ ConvertCallEnded
     /\ ~call.tools.none /\ call.tools.v = <<>>
     /\ call.include_reply_to_user
     /\ ~BlankName(call))
    => /\ cpc = "returned"
       /\ Len(out.tb.dyn) > 0
       /\ out.tb.dyn[Len(out.tb.dyn)].name = call.property_name.v
       /\ out.tb.dyn[Len(out.tb.dyn)].type \in
             {UnionT(<<ReplyToUserT>>), ListT(UnionT(<<ReplyToUserT>>))}

\* the TypeBuilder convert_to_baml_tool works on: the one given, or a new one
GivenTb(c) == IF c.tb.none THEN NewTypeBuilder ELSE c.tb.v

\* C15: convert_to_baml_tool called with a tool list that is None or empty
\* raises ValueError("At least one tool must be provided") whatever the
\* property name and the flags are, and the TypeBuilder is as it was given:
\* nothing was compiled or registered.
C15_NoToolsRaises ==
    (ConvertCallEnded /\ NoTools(call))
    => /\ cpc = "raised"
       /\ out.err = "ValueError"
       /\ out.msg = "At least one tool must be provided"
       /\ out.tb = GivenTb(call)

\* C15 witness: an empty list was given together with a blank property name
\* and the reply action included, and the call raised for the tools
C15_Witness ==
    /\ ConvertCallEnded
    /\ ~call.tools.none /\ call.tools.v = <<>>
    /\ BlankName(call)
    /\ call.include_reply_to_user
    /\ cpc = "raised"
    /\ out.msg = "At least one tool must be provided"

\* C16: convert_to_baml_tool called with a non-empty tool list and a property
\* name that is None, empty or whitespace-only raises
\* ValueError("property_name must be provided and non-empty"), and the
\* TypeBuilder is as it was given: no tool was compiled and no property was
\* added to DynamicSchema.
C16_BlankNameRaises ==
    (ConvertCallEnded /\ ~NoTools(call) /\ BlankName(call))
    => /\ cpc = "raised"
       /\ out.err = "ValueError"
       /\ out.msg = "property_name must be provided and non-empty"
       /\ out.tb = GivenTb(call)

\* C16 witness: two tools and the property name " \t" were given, and the
\* call raised for the name
C16_Witness ==
    /\ ConvertCallEnded
    /\ ~NoTools(call) /\ Len(call.tools.v) = 2
    /\ ~call.property_name.none /\ call.property_name.v = <<" ", "\t">>
    /\ cpc = "raised"
    /\ out.msg = "property_name must be provided and non-empty"
    /\ out.tb.classes = <<>>

\* the union registered by the call: the type of the last DynamicSchema
\* property, or what that list is a list of
RegisteredUnion(tb, is_multiple_tools) ==
    IF is_multiple_tools THEN tb.dyn[Len(tb.dyn)].type.of ELSE tb.dyn[Len(tb.dyn)].type

\* C17: when convert_to_baml_tool returns, the TypeBuilder it was given has
\* one more DynamicSchema property, named property_name; its type is a union
\* (inside a list exactly when is_multiple_tools) whose variants are the
\* classes compiled for the tools in input order, followed by ReplyToUser as
\* last variant exactly when include_reply_to_user.
C17_RegistersUnionUnderName ==
    (ConvertCallEnded /\ cpc = "returned")
    => LET given == GivenTb(call)
           tools == call.tools.v
           u == RegisteredUnion(out.tb, call.is_multiple_tools)
       IN /\ Len(out.tb.dyn) = Len(given.dyn) + 1
          /\ SubSeq(out.tb.dyn, 1, Len(given.dyn)) = given.dyn
          /\ out.tb.dyn[Len(out.tb.dyn)].name = call.property_name.v
          /\ out.tb.dyn[Len(out.tb.dyn)].type.k =
                (IF call.is_multiple_tools THEN "list" ELSE "union")
          /\ u.k = "union"
          /\ Len(u.of) = Len(tools) + (IF call.include_reply_to_user THEN 1 ELSE 0)
          /\ \A i \in 1..Len(tools) :
                /\ u.of[i].k = "class"
                /\ u.of[i].name = ToolClassName(ToolName(tools[i]))
                /\ out.tb.classes[u.of[i].id].name = u.of[i].name
                /\ \A j \in 1..Len(tools) : i < j => u.of[i].id < u.of[j].id
          /\ call.include_reply_to_user => u.of[Len(u.of)] = ReplyToUserT
          /\ \A i \in 1..Len(tools) : u.of[i] # ReplyToUserT

\* C17 witness: two tools were registered as a list of a union with the
\* reply action, on a TypeBuilder that already had a property
C17_Witness ==
    /\ ConvertCallEnded
    /\ cpc = "returned"
    /\ ~call.tb.none /\ call.tb.v.dyn # <<>>
    /\ call.tools.v = <<search_web, CalculatorAdd>>
    /\ call.is_multiple_tools
    /\ call.include_reply_to_user
    /\ Len(out.tb.dyn) = 2

\* the reference names a definition of the document: it is a local pointer
\* #/<section>/<name>, the root has the section and the section has the name
Resolvable(ref, root) ==
    /\ Len(ref) >= 3
    /\ ref[1] = "#"
    /\ Has(root, "sections")
    /\ ref[2] \in DOMAIN root.sections
    /\ SubSeq(ref, 3, Len(ref)) \in DOMAIN root.sections[ref[2]]

\* parse_json_schema of an object one of whose properties is a reference
\* that cannot be resolved has ended
CompiledUnresolvableRef ==
    /\ cpc \in {"returned", "raised"}
    /\ call.fn = "parse_json_schema"
    /\ Has(call.json_schema, "properties")
    /\ \E i \in 1..Len(call.json_schema.properties) :
          /\ Has(call.json_schema.properties[i].schema, "ref")
          /\ ~Resolvable(call.json_schema.properties[i].schema.ref, call.json_schema)

\* C18 as claimed: compiling a reference that cannot be resolved raises
\* ValueError, whether the section is absent, the section lacks the name or
\* the reference is no local pointer; nothing else is raised or returned.
C18_UnresolvableRefIsValueError ==
    CompiledUnresolvableRef => (cpc = "raised" /\ out.err = "ValueError")

\* the action names bound into runnable r by the bind_tools call that made it
BoundNames(r) == ToolNames(runnables[r])

\* C19 as claimed: a call made on a runnable that bind_tools returned
\* validates the finalized action name against the names bound for that
\* runnable, whatever bind_tools calls came later.
C19_RunnableKeepsItsNames ==
    \A i \in 1..Len(finals) :
        finals[i].runnable >= 1 =>
            (finals[i].err = "ValueError"
             <=> IsUnregistered(finals[i].snapshot, BoundNames(finals[i].runnable)))

\* C20 as claimed: on the reply path every snapshot whose arguments.content
\* is a string, the empty string included, that does not start with the text
\* streamed so far raises ValueError on that snapshot.
C20_EveryContentChecked ==
    [][\A p \in Partials :
         (/\ StreamNext(p)
          /\ IsReplyContent(p)
          /\ ~StartsWith(p.content, prev_content))
         => (pc' = "error" /\ err' = "ValueError")]_vars

\* the snapshot carries a non-empty discriminant other than reply_to_user
NamesTool(p) == p.isDict /\ p.name \notin {NoneName, "", REPLY_TO_USER}

\* the items _stream may yield for a final response of the engine
FinalChunks ==
    {Chunk(ConvertToAiMessage(f, TRUE, <<>>, u).msg, "final") : f \in Finals, u \in Uuids}

\* C21: the pass of the loop that meets a snapshot naming an action other
\* than reply_to_user is the last one: it emits no text delta and leaves the
\* streamed text alone, and, when the engine gives its final response, yields
\* one message built from that response alone (otherwise nothing, or the
\* cancellation string); the run consumes no further snapshot.
C21_ToolCallFromFinalOnly ==
    /\ [][\A p \in Partials :
            (StreamNext(p) /\ NamesTool(p))
            => /\ pc' \in {"done", "error"}
               /\ prev_content' = prev_content
               /\ \/ pc' = "error" /\ emitted' = emitted
                  \/ pc' = "done" /\ emitted' = Append(emitted, CancelledString)
                  \/ /\ pc' = "done"
                     /\ \E c \in FinalChunks : emitted' = Append(emitted, c)]_vars
    /\ [][(mode = "stream" /\ Routed) => (n' = 0 /\ pc' = "idle")]_vars

\* C21 witness: text was streamed, then a snapshot named CalculatorAdd with
\* partial arguments and the run ended with the tool call of the final
\* response, whose arguments are complete
C21_Witness ==
    /\ StreamEnded
    /\ Routed
    /\ prev_content = Hel
    /\ Len(emitted) = 2
    /\ emitted[1].src = "delta"
    /\ emitted[2].src = "final"
    /\ emitted[2].msg.tool_calls # <<>>
    /\ emitted[2].msg.tool_calls[1].name = "CalculatorAdd"
    /\ emitted[2].msg.tool_calls[1].args.v.payload = "x,y"

\* C22: a snapshot whose slot is absent or no mapping, or whose name is
\* absent or empty, yields the empty delta with the empty tool name, also
\* when it carries arguments.content; nothing is emitted for it and the
\* streamed text, the message and the position of the run stay as they were.
C22_UndecidedEmitsNothing ==
    [][\A p \in Partials :
         (StreamNext(p) /\ IsUndecided(p))
         => /\ last' = EMPTY_DELTA
            /\ emitted' = emitted
            /\ prev_content' = prev_content
            /\ has_message' = has_message
            /\ pc' = "streaming"
            /\ err' = err]_vars

\* C22 witness: the first two snapshots of the example, with an empty name
\* and a content key, were consumed and nothing was emitted
C22_Witness ==
    /\ mode = "stream"
    /\ pc = "streaming"
    /\ example_pos = 2
    /\ last = EMPTY_DELTA
    /\ emitted = <<>>
    /\ prev_content = Empty

\* the run was cut short: the consumer closed the generator, the engine
\* aborted, or an exception left _stream
CutShort ==
    \/ pc \in {"closed", "error"}
    \/ \E i \in 1..Len(emitted) : emitted[i] = CancelledString

\* C23: in a streamed run every item that carries a tool call was built from
\* the final response of the engine, and a run that was cut short (closed by
\* the consumer, aborted by the engine also while the final response was
\* awaited, or left by an exception) has yielded no such item at all.
C23_NoPartialAction ==
    mode = "stream" =>
        /\ \A i \in 1..Len(emitted) :
              emitted[i].msg.tool_calls # <<>> => emitted[i].src = "final"
        /\ CutShort =>
              /\ ActionCount(emitted) = 0
              /\ \A i \in 1..Len(emitted) : emitted[i].msg.tool_calls = <<>>

\* C23 witness: text was streamed, a snapshot named a tool, and the engine
\* aborted while the final response was awaited
C23_Witness ==
    /\ mode = "stream"
    /\ pc = "done"
    /\ Routed
    /\ Len(emitted) = 2
    /\ emitted[1].src = "delta"
    /\ emitted[2] = CancelledString

\* C24 as claimed: every item a streamed run yields is a ChatGenerationChunk,
\* in every outcome of the run, an abort of the engine's stream included.
C24_OnlyGenerationChunks ==
    mode = "stream" =>
        \A i \in 1..Len(emitted) : emitted[i].kind = "ChatGenerationChunk"

\* arguments.content or "": the text when it is a non-empty string, else ""
ContentOrEmpty(snapshot) ==
    IF snapshot.argsKind = "dict" /\ snapshot.contentKind = "str"
    THEN snapshot.content ELSE Empty

\* C25 as claimed: finalizing a snapshot whose discriminant is reply_to_user
\* is always accepted and gives a text message whose content is
\* arguments.content when that is a non-empty string and "" in every other
\* case (arguments absent, content absent, null or empty).
C25_ReplyAlwaysAccepted ==
    \A i \in 1..Len(finals) :
        (finals[i].snapshot.isDict /\ finals[i].snapshot.name = REPLY_TO_USER)
        => /\ finals[i].err = ""
           /\ finals[i].msg.type = "AIMessage"
           /\ finals[i].msg.tool_calls = <<>>
           /\ finals[i].msg.content = ContentOrEmpty(finals[i].snapshot)

\* the discriminant literal of the class compiled for the i-th tool of the
\* call: the type of the first property of that class
DiscriminantOf(i) ==
    PropsOf(out.tb, RegisteredUnion(out.tb, call.is_multiple_tools).of[i])[1].type

\* C26 as claimed: for every tool of name n the discriminant literal of its
\* compiled class is exactly n, hence one of the names bind_tools registers
\* for validation (the tool names and reply_to_user).
C26_DiscriminantIsToolName ==
    (ConvertCallEnded /\ cpc = "returned")
    => \A i \in 1..Len(call.tools.v) :
         /\ DiscriminantOf(i).k = "literal"
         /\ DiscriminantOf(i).v = ToolName(call.tools.v[i])
         /\ InSeq(DiscriminantOf(i).v, ToolNames(call.tools.v))

\* parse_json_schema of the object or of the function whose properties are
\* OptProps has returned
CompiledOpts ==
    /\ cpc = "returned"
    /\ call.fn = "parse_json_schema"
    /\ Has(call.json_schema, "type")
    /\ \/ /\ call.json_schema.type = "object"
          /\ Has(call.json_schema, "properties")
          /\ call.json_schema.properties = OptProps
       \/ /\ call.json_schema.type = "function"
          /\ call.json_schema.function.parameters.properties = OptProps

\* the compiled field of the i-th property of OptProps: the function class
\* has the action property first
CompiledField(i) ==
    PropsOf(out.tb, out.ret)[IF call.json_schema.type = "function" THEN i + 1 ELSE i]

\* C27 as claimed: in an object schema and in a function's parameters alike,
\* a property is wrapped as optional exactly when its name is not in required
\* and it has no default key.
C27_OptionalIffNoDefaultKey ==
    CompiledOpts =>
        \A i \in 1..Len(OptProps) :
            /\ CompiledField(i).name = OptProps[i].name
            /\ CompiledField(i).type =
                 (IF /\ OptProps[i].name \notin RequiredOf([required |-> OptRequired])
                     /\ ~Has(OptProps[i].schema, "default")
                  THEN OptionalT(IntT) ELSE IntT)

\* C27 amended: in an object schema and in a function's parameters alike, a
\* property is wrapped as optional exactly when its name is not in required
\* and its default is absent or null; a required property and one with a
\* default other than null are never wrapped.
C27_OptionalIffDefaultNone ==
    CompiledOpts =>
        \A i \in 1..Len(OptProps) :
            /\ CompiledField(i).name = OptProps[i].name
            /\ CompiledField(i).type =
                 (IF /\ OptProps[i].name \notin RequiredOf([required |-> OptRequired])
                     /\ (~Has(OptProps[i].schema, "default")
                         \/ OptProps[i].schema.default = NoDefault)
                  THEN OptionalT(IntT) ELSE IntT)

\* C27 witness: the function with the properties OptProps has been compiled;
\* c and e are optional, d is not
C27_Witness ==
    /\ CompiledOpts
    /\ call.json_schema.type = "function"
    /\ CompiledField(3).type = OptionalT(IntT)
    /\ CompiledField(4).type = IntT
    /\ CompiledField(5).type = OptionalT(IntT)

\* a document in which the definition Node refers back to itself
RefersToItself(json_schema) ==
    \/ json_schema = Object("List", <<Prop("head", Ref("$defs", "Node"))>>, <<>>)
    \/ json_schema = [ref |-> <<"#", "$defs", "Node">>, sections |-> Definitions]

\* C28 as claimed: compilation of a document whose referenced definition
\* refers back to itself ends with a handle; the self-reference resolves to
\* the handle already registered for the path, and the call depth stays
\* within the limit.
C28_SelfReferenceResolves ==
    (cpc \in {"returned", "raised"} /\ call.fn = "parse_json_schema"
     /\ RefersToItself(call.json_schema))
    => /\ cpc = "returned"
       /\ out.err # "RecursionError"

\* the run is in _stream and has not raised
StreamNotRaised == mode = "stream" /\ pc \in {"streaming", "done", "closed"}

\* C29: while a streaming run has not raised, the concatenation of the text
\* deltas emitted so far equals prev_content, and a pass of the loop that
\* does not raise leaves prev_content equal to the content of the snapshot
\* when that is a reply snapshot with a non-empty content, and unchanged
\* otherwise: prev_content is the content of the most recent reply snapshot
\* that carried a non-empty content, no character is emitted twice, none
\* is skipped.
C29_EmittedIsPrevContent ==
    /\ [](StreamNotRaised => EmittedText(emitted) = prev_content)
    /\ [][\A p \in Partials :
            (StreamNext(p) /\ pc' # "error")
            => /\ prev_content' =
                    (IF IsReplyContent(p) /\ Len(p.content) > 0
                     THEN p.content ELSE prev_content)
               /\ EmittedText(emitted') = EmittedText(emitted) \o last'.delta]_vars

\* C29 witness: "Hel" and "lo" were emitted, then a reply snapshot with
\* nothing new was consumed; the emitted text and prev_content are "Hello"
C29_Witness ==
    /\ StreamNotRaised
    /\ pc = "streaming"
    /\ n = 3
    /\ Len(emitted) = 2
    /\ last.tool_name = REPLY_TO_USER
    /\ last.delta = Empty
    /\ prev_content = Hello
    /\ EmittedText(emitted) = Hello

\* C30: convert_to_baml_tool adds the property as its last step. When the
\* call raises (no tools, a blank property_name, or a schema error in any
\* tool of the list) the DynamicSchema of the TypeBuilder has the properties
\* it had before the call and none under the given name; when it returns,
\* the property is the one entry added.
C30_SlotAddedLast ==
    /\ (ConvertCallEnded /\ cpc = "raised")
       => /\ out.tb.dyn = GivenTb(call).dyn
          /\ ~call.property_name.none
             => \A i \in 1..Len(out.tb.dyn) : out.tb.dyn[i].name # call.property_name.v
    /\ (ConvertCallEnded /\ cpc = "returned")
       => out.tb.dyn = Append(GivenTb(call).dyn, out.tb.dyn[Len(out.tb.dyn)])

\* C30 witness: the second tool of the list failed to compile after the
\* first was registered on a TypeBuilder that already had a property; the
\* DynamicSchema still has that one property
C30_Witness ==
    /\ ConvertCallEnded
    /\ cpc = "raised"
    /\ call.tools = Some(<<CalculatorAdd, book_trip>>)
    /\ call.property_name = Some(PropertyName)
    /\ ~call.tb.none
    /\ Len(GivenTb(call).dyn) = 1
    /\ Len(out.tb.classes) > Len(GivenTb(call).classes)
    /\ out.tb.dyn = GivenTb(call).dyn

\* C30, the callers: when _prepare_tb raises, _stream ends with ValueError
\* before the engine's stream is opened and _generate before the engine is
\* called; no snapshot is consumed, nothing is emitted, no response recorded.
C30_EngineNeverCalled ==
    /\ [][\A r \in 0..Len(runnables) :
            (StartStream(r) /\ err' # "")
            => /\ pc' = "error"
               /\ err' = "ValueError"
               /\ n' = 0
               /\ emitted' = <<>>]_vars
    /\ [][pc = "error" => (pc' = "idle" /\ n' = 0)]_vars
    /\ [][\A r \in 0..Len(runnables) :
            (Generate(r) /\ PrepareTb(BoundTools(r)).err # "")
            => /\ pc' = "error"
               /\ err' = "ValueError"
               /\ finals' = finals]_vars

====
